---- MODULE Spec2Model ----
(***************************************************************************)
(* Model of the bootstrap-and-dispatch layer of the icp command line       *)
(* client (src/src/program.rs): Program::new, the configuration helpers    *)
(* it calls, Program::run_program, the two user lookups and the seven      *)
(* renderers.                                                              *)
(*                                                                         *)
(* Text is modelled as sequences of one-character strings.  The session    *)
(* facade, the remote API, the file system and standard input are the      *)
(* environment: their answers are chosen from small sets.                  *)
(***************************************************************************)
EXTENDS Integers, Sequences, FiniteSets, TLC

VARIABLES
    baseDirs,     \* BaseDirs::new() yields a value (fixed for the process)
    fileExists,   \* config.toml is present in the per-user config directory
    fileLines,    \* its content: the whole key=raw lines written so far
    fileTail,     \* and the characters after them of a line that broke off
    pc,           \* position of the process
    log,          \* history: the steps performed, in order
    out,          \* standard output, one record per printed line
    errOut,       \* standard error, one string per printed line
    existed,      \* result of check_if_config_file_exists, once it has run
    created,      \* result of create_config_toml, once it has run
    readOutcome,  \* how check_config_toml's read of the file ended
    validated,    \* result of check_config_toml, once it has run
    typed,        \* the lines this process has read from standard input
    past,         \* what earlier and this invocation did to the file
    newResult,    \* result of Program::new
    session,      \* the Session held by Program (client id and login)
    command,      \* the Command given to run_program
    tmp,          \* result of get_user_with_login
    user,         \* result of get_user_info_with_id
    runResult     \* result of Program::run_program

\* the results of the configuration steps of Program::new
cfgVars == <<existed, created, readOutcome, validated>>

vars == <<baseDirs, fileExists, fileLines, fileTail, pc, log, out, errOut, existed,
          created, readOutcome, validated, typed, past, newResult, session,
          command, tmp, user, runResult>>

----------------------------------------------------------------------------
(* Bounds of the model *)

\* how far past the length limit the entered texts go
ExtraLen == 1
\* longest array the login-filtered lookup answers with
MaxUsers == 1
\* longest cursus_users list of a profile
MaxCursus == 2
\* how many times the program is started, one run after the other
MaxInvocations == 2

(* Program constants *)

\* check_client: longest accepted client_id / client_secret
LenLimit == 256
\* "{:20}{}": width of the label column
LabelWidth == 20
\* index into cursus_users used by me and blackhole (0-based in the source)
CursusIndex == 1
\* chrono num_days: seconds in a day
SecondsPerDay == 86400

----------------------------------------------------------------------------
(* Text *)

Quote == "\""
Backslash == "\\"

\* A text is a sequence of characters.  A character is written as the
\* one-character string of itself where TLA+ has one (U+0020..U+007E but the
\* grave accent, and tab, line feed, form feed, carriage return) and as "U+"
\* followed by its code point in hexadecimal otherwise ("U+000B", "U+0060",
\* "U+00A0", "U+01F600").
Hex == <<"0", "1", "2", "3", "4", "5", "6", "7",
         "8", "9", "A", "B", "C", "D", "E", "F">>
HexLower == <<"0", "1", "2", "3", "4", "5", "6", "7",
              "8", "9", "a", "b", "c", "d", "e", "f">>
Digit(n, k) == Hex[((n \div (16 ^ k)) % 16) + 1]

\* the characters U+0020..U+005F in order
Printable ==
  <<" ", "!", "\"", "#", "$", "%", "&", "'", "(", ")", "*", "+",
     ",", "-", ".", "/", "0", "1", "2", "3", "4", "5", "6", "7",
     "8", "9", ":", ";", "<", "=", ">", "?", "@", "A", "B", "C",
     "D", "E", "F", "G", "H", "I", "J", "K", "L", "M", "N", "O",
     "P", "Q", "R", "S", "T", "U", "V", "W", "X", "Y", "Z", "[",
     "\\", "]", "^", "_">>
\* the characters U+0061..U+007E in order
Lowercase ==
  <<"a", "b", "c", "d", "e", "f", "g", "h", "i", "j", "k", "l",
    "m", "n", "o", "p", "q", "r", "s", "t", "u", "v", "w", "x",
    "y", "z", "{", "|", "}", "~">>

\* the character with code point n
Char(n) ==
    IF n \in 32..95 THEN Printable[n - 31]
    ELSE IF n \in 97..126 THEN Lowercase[n - 96]
    ELSE CASE n = 9 -> "\t"
           [] n = 10 -> "\n"
           [] n = 12 -> "\f"
           [] n = 13 -> "\r"
           [] n > 65535 ->
                "U+" \o Digit(n, 5) \o Digit(n, 4) \o Digit(n, 3) \o Digit(n, 2)
                     \o Digit(n, 1) \o Digit(n, 0)
           [] OTHER ->
                "U+" \o Digit(n, 3) \o Digit(n, 2) \o Digit(n, 1) \o Digit(n, 0)

\* char::is_whitespace, which str::trim goes by: the code points with the
\* Unicode White_Space property
WhiteSpaceCodes ==
    (9..13) \cup {32, 133, 160, 5760} \cup (8192..8202)
        \cup {8232, 8233, 8239, 8287, 12288}
Whitespace == {Char(n) : n \in WhiteSpaceCodes}

\* str::len counts the bytes of the UTF-8 encoding
AsciiChars == {Char(n) : n \in 0..127}
TwoByteCodes == 128..2047
\* one byte up to U+007F (the characters written as themselves are all among
\* these), two up to U+07FF, three up to U+FFFF, whose names have four
\* digits, and four beyond
Utf8Width(c) ==
    IF Len(c) = 1 \/ c \in AsciiChars THEN 1
    ELSE IF \E n \in TwoByteCodes : Char(n) = c THEN 2
    ELSE IF Len(c) = 6 THEN 3
    ELSE 4

RECURSIVE ExtraBytes(_, _)
ExtraBytes(s, P) ==
    IF P = {} THEN 0
    ELSE LET i == CHOOSE j \in P : TRUE
         IN  (Utf8Width(s[i]) - 1) + ExtraBytes(s, P \ {i})

ByteLen(s) == Len(s) + ExtraBytes(s, {i \in 1..Len(s) : Utf8Width(s[i]) > 1})

\* the first n bytes of a character of more than one byte, as a file holds
\* them when a write broke off inside the character: the character, then
\* how many of its bytes there are ("U+00E9:1of2")
Partial(c, n) == c \o ":" \o Hex[n + 1] \o "of" \o Hex[Utf8Width(c) + 1]
\* the names of whole characters have at most 8 letters, these have more
IsPartial(c) == Len(c) > 8
\* a text that is UTF-8: it ends with a whole character
IsUtf8(s) == \A i \in 1..Len(s) : ~IsPartial(s[i])

\* how many whole characters of s fit into its first n bytes: at most n, and
\* at least n less the bytes that the characters of s have beyond their first
WholeChars(s, n) ==
    CHOOSE k \in (n - (ByteLen(s) - Len(s)))..n :
        /\ 0 <= k /\ k <= Len(s)
        /\ ByteLen(SubSeq(s, 1, k)) <= n
        /\ k = Len(s) \/ ByteLen(SubSeq(s, 1, k + 1)) > n

\* the first n bytes of the text s, k being the whole characters among them
BytePrefixAt(s, n, k) ==
    IF k < Len(s) /\ n > ByteLen(SubSeq(s, 1, k))
    THEN Append(SubSeq(s, 1, k), Partial(s[k + 1], n - ByteLen(SubSeq(s, 1, k))))
    ELSE SubSeq(s, 1, k)

\* the first n bytes of the text s
FirstBytes(s, n) ==
    IF n <= Len(s) /\ \A i \in 1..n : Utf8Width(s[i]) = 1
    THEN SubSeq(s, 1, n)
    ELSE BytePrefixAt(s, n, WholeChars(s, n))

\* the same, with the text worked out once and then cut
BytePrefix(s, n) == CHOOSE p \in {FirstBytes(text, n) : text \in {s}} : TRUE

abc == <<"a", "b", "c">>
secret == <<"s", "e", "c", "r", "e", "t">>
jdoe == <<"j", "d", "o", "e">>
Rep(n) == [i \in 1..n |-> "x"]

RECURSIVE TrimStart(_)
TrimStart(s) ==
    IF s # <<>> /\ Head(s) \in Whitespace THEN TrimStart(Tail(s)) ELSE s

RECURSIVE TrimEnd(_)
TrimEnd(s) ==
    IF s # <<>> /\ s[Len(s)] \in Whitespace
    THEN TrimEnd(SubSeq(s, 1, Len(s) - 1))
    ELSE s

\* str::trim as used on each line read from standard input
Trim(s) == TrimEnd(TrimStart(s))

\* Results of fallible operations
Ok(v) == [ok |-> TRUE, val |-> v, err |-> "none"]
Err(e) == [ok |-> FALSE, val |-> <<>>, err |-> e]

----------------------------------------------------------------------------
(* Configuration file *)

ConfigKeys == <<"client_id", "client_secret", "login">>

\* writeln!(&mut file, "key=\"{}\"", line.trim())
ConfigLine(key, line) == [key |-> key, raw |-> <<Quote>> \o Trim(line) \o <<Quote>>]

\* the text of a key, as writeln! puts it at the start of its line
KeyText(key) ==
    CASE key = "client_id" -> <<"c", "l", "i", "e", "n", "t", "_", "i", "d">>
      [] key = "client_secret" ->
            <<"c", "l", "i", "e", "n", "t", "_", "s", "e", "c", "r", "e", "t">>
      [] key = "login" -> <<"l", "o", "g", "i", "n">>

\* the characters of a whole line of the file, its line feed included
LineText(l) == KeyText(l.key) \o <<"=">> \o l.raw \o <<"\n">>

(* toml::from_str on the text of the file.  Every line the program writes *)
(* is key= followed by a quoted text, so the value of a line is a TOML     *)
(* basic string, or a multi-line basic string when the text opens with     *)
(* three quotes.  A string that a line leaves open runs into the next line, *)
(* takes its key with it and so never yields the three required keys; it   *)
(* is an error here too.                                                   *)

\* characters a string may not hold unescaped: the control characters other
\* than tab
TomlControl == {Char(n) : n \in (0..8) \cup (10..31) \cup {127}}
Special(c) == c = Quote \/ c = Backslash \/ c \in TomlControl

\* the first position from i on that holds a quote, a backslash or a control
\* character; Len(raw) + 1 when there is none
NextSpecial(raw, i) ==
    LET S == {j \in i..Len(raw) : Special(raw[j])}
    IN  IF S = {} THEN Len(raw) + 1
        ELSE CHOOSE j \in S : \A k \in S : j <= k

\* the number of quotes in a row from position j on
QuoteRun(raw, j) ==
    LET S == {k \in j..Len(raw) : raw[k] # Quote}
    IN  (IF S = {} THEN Len(raw) + 1 ELSE CHOOSE k \in S : \A l \in S : k <= l) - j

IsHex(c) == \E v \in 1..16 : c = Hex[v] \/ c = HexLower[v]
HexVal(c) == (CHOOSE v \in 1..16 : c = Hex[v] \/ c = HexLower[v]) - 1
RECURSIVE HexNumber(_)
HexNumber(s) ==
    IF s = <<>> THEN 0
    ELSE 16 * HexNumber(SubSeq(s, 1, Len(s) - 1)) + HexVal(s[Len(s)])

\* a Unicode scalar value: a code point that is no surrogate
IsScalar(n) == (0 <= n /\ n <= 55295) \/ (57344 <= n /\ n <= 1114111)

NoEscape == [ok |-> FALSE, char |-> "", next |-> 0]
\* \x, \u and \U followed by n hexadecimal digits (2, 4 and 8), the backslash
\* at position j;
\* no scalar value has more than six significant digits
UnicodeEscape(raw, j, n) ==
    IF /\ j + 1 + n <= Len(raw)
       /\ \A k \in (j + 2)..(j + 1 + n) : IsHex(raw[k])
       /\ \A k \in (j + 2)..(j + 1 + n - 6) : raw[k] = "0"
       /\ IsScalar(HexNumber(SubSeq(raw, IF n > 6 THEN j + 2 + n - 6 ELSE j + 2,
                                    j + 1 + n)))
    THEN [ok |-> TRUE,
          char |-> Char(HexNumber(SubSeq(raw, IF n > 6 THEN j + 2 + n - 6 ELSE j + 2,
                                         j + 1 + n))),
          next |-> j + 2 + n]
    ELSE NoEscape

\* the escape sequence whose backslash is at position j: the character it
\* stands for and the position after it
Escape(raw, j) ==
    IF j + 1 > Len(raw) THEN NoEscape
    ELSE LET e == raw[j + 1]
         IN  CASE e = "b" -> [ok |-> TRUE, char |-> Char(8), next |-> j + 2]
               [] e = "t" -> [ok |-> TRUE, char |-> "\t", next |-> j + 2]
               [] e = "n" -> [ok |-> TRUE, char |-> "\n", next |-> j + 2]
               [] e = "f" -> [ok |-> TRUE, char |-> "\f", next |-> j + 2]
               [] e = "r" -> [ok |-> TRUE, char |-> "\r", next |-> j + 2]
               [] e = Quote -> [ok |-> TRUE, char |-> Quote, next |-> j + 2]
               [] e = Backslash -> [ok |-> TRUE, char |-> Backslash, next |-> j + 2]
               [] e = "e" -> [ok |-> TRUE, char |-> Char(27), next |-> j + 2]
               [] e = "x" -> UnicodeEscape(raw, j, 2)
               [] e = "u" -> UnicodeEscape(raw, j, 4)
               [] e = "U" -> UnicodeEscape(raw, j, 8)
               [] OTHER -> NoEscape

RECURSIVE SkipBlank(_)
SkipBlank(s) ==
    IF s # <<>> /\ Head(s) \in {" ", "\t"} THEN SkipBlank(Tail(s)) ELSE s

\* what may follow a value up to the end of its line: blanks and a comment;
\* a carriage return right before the line feed belongs to the line end
Trailer(rest, eol) ==
    LET body == IF eol /\ rest # <<>> /\ rest[Len(rest)] = "\r"
                THEN SubSeq(rest, 1, Len(rest) - 1)
                ELSE rest
        t == SkipBlank(body)
    IN  \/ t = <<>>
        \/ /\ t[1] = "#"
           /\ \A i \in 2..Len(t) : t[i] \notin TomlControl

\* a basic string read from position i on, acc being its text so far
RECURSIVE Basic(_, _, _, _)
Basic(raw, i, acc, eol) ==
    LET j == NextSpecial(raw, i)
        text == acc \o SubSeq(raw, i, j - 1)
    IN  IF j > Len(raw) THEN Err("TomlError")
        ELSE IF raw[j] = Quote
        THEN (IF Trailer(SubSeq(raw, j + 1, Len(raw)), eol)
              THEN Ok(text) ELSE Err("TomlError"))
        ELSE IF raw[j] = Backslash
        THEN (LET e == Escape(raw, j)
              IN  IF e.ok THEN Basic(raw, e.next, Append(text, e.char), eol)
                  ELSE Err("TomlError"))
        ELSE Err("TomlError")

\* a multi-line basic string read from position i on: one or two quotes are
\* text, three close it, and up to two more right before them are text
RECURSIVE MlBasic(_, _, _, _)
MlBasic(raw, i, acc, eol) ==
    LET j == NextSpecial(raw, i)
        text == acc \o SubSeq(raw, i, j - 1)
    IN  IF j > Len(raw) THEN Err("TomlError")
        ELSE IF raw[j] = Quote
        THEN (LET r == QuoteRun(raw, j)
                  kept == IF r >= 5 THEN 2 ELSE IF r = 4 THEN 1 ELSE 0
              IN  IF r >= 3
                  THEN (IF Trailer(SubSeq(raw, j + kept + 3, Len(raw)), eol)
                        THEN Ok(text \o [k \in 1..kept |-> Quote])
                        ELSE Err("TomlError"))
                  ELSE IF j + r > Len(raw) THEN Err("TomlError")
                  ELSE MlBasic(raw, j + r, text \o [k \in 1..r |-> Quote], eol))
        ELSE IF raw[j] = Backslash
        THEN (LET e == Escape(raw, j)
              IN  IF e.ok THEN MlBasic(raw, e.next, Append(text, e.char), eol)
                  ELSE Err("TomlError"))
        ELSE Err("TomlError")

\* the value after key= on a line; eol: the line ends with its line feed
\* (it does not when the file ends inside it)
TomlValue(raw, eol) ==
    IF raw = <<>> \/ raw[1] # Quote THEN Err("TomlError")
    ELSE IF Len(raw) >= 3 /\ raw[2] = Quote /\ raw[3] = Quote
    THEN MlBasic(raw, 4, <<>>, eol)
    ELSE Basic(raw, 2, <<>>, eol)

\* the value of a whole line
TomlString(raw) == TomlValue(raw, TRUE)

HasKey(lines, key) == \E i \in 1..Len(lines) : lines[i].key = key
ValueOf(lines, key) ==
    TomlString(lines[CHOOSE i \in 1..Len(lines) : lines[i].key = key].raw).val

StartsWith(s, p) == Len(s) >= Len(p) /\ SubSeq(s, 1, Len(p)) = p

\* the unfinished last line of the file as key and text after key=
TailLine(tail) ==
    IF \E k \in 1..Len(ConfigKeys) :
            StartsWith(tail, KeyText(ConfigKeys[k]) \o <<"=">>)
    THEN LET k == CHOOSE n \in 1..Len(ConfigKeys) :
                      StartsWith(tail, KeyText(ConfigKeys[n]) \o <<"=">>)
         IN  Ok([key |-> ConfigKeys[k],
                 raw |-> SubSeq(tail, Len(KeyText(ConfigKeys[k])) + 2, Len(tail))])
    ELSE Err("TomlError")

\* toml::from_str::<Session>(&content): every line is key="value", no key is
\* repeated and the three required keys are present.  lines are the whole
\* lines of the file, tail the text after them that no line feed ends
FromToml(lines, tail) ==
    LET last == TailLine(tail)
        all == IF tail # <<>> /\ last.ok THEN Append(lines, last.val) ELSE lines
    IN  IF /\ tail # <<>> => last.ok
           /\ \A i \in 1..Len(all) : TomlValue(all[i].raw, i <= Len(lines)).ok
           /\ \A i, j \in 1..Len(all) : all[i].key = all[j].key => i = j
           /\ \A k \in 1..Len(ConfigKeys) : HasKey(all, ConfigKeys[k])
        THEN Ok([client_id |-> ValueOf(all, "client_id"),
                 client_secret |-> ValueOf(all, "client_secret"),
                 login |-> ValueOf(all, "login")])
        ELSE Err("TomlError")

\* check_client with the length test off by one
check_client_off_by_one(config) ==
    IF config.client_id = <<>> \/ config.client_secret = <<>>
    THEN FALSE
    ELSE IF ByteLen(config.client_id) >= LenLimit
              \/ ByteLen(config.client_secret) >= LenLimit
         THEN FALSE
         ELSE TRUE

check_client(config) ==
    IF config.client_id = <<>> \/ config.client_secret = <<>>
    THEN FALSE
    ELSE IF ByteLen(config.client_id) > LenLimit
              \/ ByteLen(config.client_secret) > LenLimit
         THEN FALSE
         ELSE TRUE

check_if_config_file_exists(dirs, present) ==
    IF dirs
    THEN (IF ~present THEN FALSE ELSE TRUE)
    ELSE TRUE

\* outcomes of std::fs::read_to_string on the configuration file
ReadOutcomes == {"read", "NotFound", "PermissionDenied", "Other"}

\* check_config_toml propagating the read failures it does not name
check_config_toml_propagating(dirs, outcome, lines, tail) ==
    IF ~dirs THEN [res |-> Ok(TRUE), diag |-> <<>>]
    ELSE CASE outcome = "read" /\ IsUtf8(tail) ->
                LET config == FromToml(lines, tail)
                IN  IF ~config.ok THEN [res |-> Err(config.err), diag |-> <<>>]
                    ELSE IF ~check_client(config.val)
                         THEN [res |-> Ok(FALSE), diag |-> <<>>]
                         ELSE [res |-> Ok(TRUE), diag |-> <<>>]
           [] outcome = "NotFound" ->
                [res |-> Ok(FALSE), diag |-> <<"config.toml not found">>]
           [] outcome = "PermissionDenied" ->
                [res |-> Ok(FALSE), diag |-> <<"config.toml not readable">>]
           [] OTHER ->
                [res |-> Err("IoError"), diag |-> <<>>]

\* the value check_config_toml returns, and what it prints on standard error;
\* read_to_string fails with InvalidData, one of the other errors, on a file
\* that is not UTF-8
check_config_toml(dirs, outcome, lines, tail) ==
    IF ~dirs THEN [res |-> Ok(TRUE), diag |-> <<>>]
    ELSE CASE outcome = "read" /\ IsUtf8(tail) ->
                LET config == FromToml(lines, tail)
                IN  IF ~config.ok THEN [res |-> Err(config.err), diag |-> <<>>]
                    ELSE IF ~check_client(config.val)
                         THEN [res |-> Ok(FALSE), diag |-> <<>>]
                         ELSE [res |-> Ok(TRUE), diag |-> <<>>]
           [] outcome = "NotFound" ->
                [res |-> Ok(FALSE), diag |-> <<"config.toml not found">>]
           [] outcome = "PermissionDenied" ->
                [res |-> Ok(FALSE), diag |-> <<"config.toml not readable">>]
           [] OTHER ->
                [res |-> Ok(TRUE),
                 diag |-> <<"config.toml error.", "something went wrong.">>]

\* println! of a plain text
Text(t) == [kind |-> "text", text |-> t]

Instructions ==
    <<Text("Browse to: https://profile.intra.42.fr/oauth/applications/new"),
      Text("Create new Application"),
      Text("Set redirect_url to \"http://localhost:8080\"")>>

Prompts ==
    <<Text("Enter client id: "), Text("Enter client secret: "),
      Text("Enter intra login: ")>>

\* the fallible steps of create_config_toml after File::create, in order
CreateSteps == <<"read_line", "write", "read_line", "write", "read_line", "write">>

\* where create_config_toml fails: 0 nowhere, 1 at File::create, 1 + k at the
\* k-th entry of CreateSteps
FailPoints == 0..(1 + Len(CreateSteps))

\* LineBuffer without line.clear(): read_line appends to what was read before
RECURSIVE LineBuffer_uncleared(_, _)
LineBuffer_uncleared(stdin, k) ==
    IF k = 0 THEN <<>> ELSE LineBuffer_uncleared(stdin, k - 1) \o stdin[k]

\* the buffer `line` after the k-th read_line: it is empty before the first
\* read and cleared before each later one, so it holds the k-th line alone
LineBuffer(stdin, k) == <<>> \o stdin[k]

\* the line the k-th writeln! writes
WrittenLine(stdin, k) == ConfigLine(ConfigKeys[k], LineBuffer(stdin, k))

\* the failure points at which a writeln! breaks off, and the line it is at
IsWrite(fail) == fail >= 2 /\ CreateSteps[fail - 1] = "write"
WriteOf(fail) == (fail - 1) \div 2

\* how many bytes of its line a writeln! that fails has put into the file:
\* the write calls it issues can each fall short, so any number short of the
\* whole line
Cuts(fail, stdin) ==
    IF IsWrite(fail)
    THEN 0..(ByteLen(LineText(WrittenLine(stdin, WriteOf(fail)))) - 1)
    ELSE {0}

\* create_config_toml removing the file it created when a later step fails
create_config_toml_cleaning_up(dirs, present, lines, tail, fail, cut, stdin) ==
    IF ~dirs
    THEN [res |-> Err("BaseDirsNewError"), printed |-> Instructions,
          steps |-> <<>>, read |-> <<>>, present |-> present, lines |-> lines,
          tail |-> tail]
    ELSE IF fail = 1
    THEN [res |-> Err("IoError"), printed |-> Instructions,
          steps |-> <<"File::create">>, read |-> <<>>, present |-> present,
          lines |-> lines, tail |-> tail]
    ELSE LET done == IF fail = 0 THEN Len(CreateSteps) ELSE fail - 1
             prompts == (done + 1) \div 2
             read == IF fail = 0 THEN Len(ConfigKeys) ELSE (fail - 1) \div 2
         IN  [res |-> IF fail = 0 THEN Ok(TRUE) ELSE Err("IoError"),
              printed |-> Instructions \o SubSeq(Prompts, 1, prompts),
              steps |-> <<"File::create">> \o SubSeq(CreateSteps, 1, done),
              read |-> SubSeq(stdin, 1, read),
              present |-> fail = 0,
              lines |-> IF fail = 0
                        THEN [k \in 1..Len(ConfigKeys) |-> WrittenLine(stdin, k)]
                        ELSE <<>>,
              tail |-> <<>>]

\* create_config_toml on the lines read from standard input: its result, what
\* it prints, the steps it performs, the lines it has read and the file it
\* leaves.  File::create empties the file; each writeln! that succeeds adds
\* a whole line; the one that fails leaves the first cut bytes of its line
create_config_toml(dirs, present, lines, tail, fail, cut, stdin) ==
    IF ~dirs
    THEN [res |-> Err("BaseDirsNewError"), printed |-> Instructions,
          steps |-> <<>>, read |-> <<>>, present |-> present, lines |-> lines,
          tail |-> tail]
    ELSE IF fail = 1
    THEN [res |-> Err("IoError"), printed |-> Instructions,
          steps |-> <<"File::create">>, read |-> <<>>, present |-> present,
          lines |-> lines, tail |-> tail]
    ELSE LET done == IF fail = 0 THEN Len(CreateSteps) ELSE fail - 1
             prompts == (done + 1) \div 2
             read == IF fail = 0 THEN Len(ConfigKeys) ELSE (fail - 1) \div 2
             written == IF fail = 0 THEN Len(ConfigKeys) ELSE (fail - 2) \div 2
         IN  [res |-> IF fail = 0 THEN Ok(TRUE) ELSE Err("IoError"),
              printed |-> Instructions \o SubSeq(Prompts, 1, prompts),
              steps |-> <<"File::create">> \o SubSeq(CreateSteps, 1, done),
              read |-> SubSeq(stdin, 1, read),
              present |-> TRUE,
              lines |-> [k \in 1..written |-> WrittenLine(stdin, k)],
              tail |-> IF IsWrite(fail)
                       THEN BytePrefix(LineText(WrittenLine(stdin, WriteOf(fail))), cut)
                       ELSE <<>>]

\* create_config_toml as far as it gets when k lines have arrived on standard
\* input: to the failure at point fail if that lies within these lines, to
\* its return if k is all three, and else to where it waits for line k + 1,
\* the prompt printed and read_line not yet back
CreateUpTo(dirs, present, lines, tail, fail, cut, stdin, k) ==
    IF ~dirs \/ (fail # 0 /\ fail <= 2 * k + 1)
    THEN create_config_toml(dirs, present, lines, tail, fail, cut, stdin)
    ELSE IF k = Len(ConfigKeys)
    THEN create_config_toml(dirs, present, lines, tail, 0, 0, stdin)
    ELSE LET c == create_config_toml(dirs, present, lines, tail, 2 * (k + 1), 0, stdin)
         IN  [c EXCEPT !.res = [ok |-> FALSE, val |-> <<>>, err |-> "pending"],
                       !.steps = SubSeq(c.steps, 1, Len(c.steps) - 1)]

----------------------------------------------------------------------------
(* Environment of Program::new *)

\* texts typed at the three prompts (read_line keeps the line feed)
\* empty, in range with blanks of several kinds around, and over-long
ClientIdTexts == {<<>>, <<"\f", " ">> \o abc, Rep(LenLimit + ExtraLen)}
SecretTexts == {<<>>, secret, Rep(LenLimit + ExtraLen)}
LoginTexts == {<<>>, jdoe \o <<Char(160), "\t">>, Rep(LenLimit + ExtraLen)}
\* texts at the length limit, a text of LenLimit characters that takes more
\* bytes, a quote and an escape sequence
BoundaryTexts ==
    {<<Rep(LenLimit), secret, <<>> >>,
     <<Rep(LenLimit - 1) \o <<Char(233)>>, secret, jdoe>>,
     <<abc, Rep(LenLimit), jdoe>>,
     <<abc, <<"a", Quote, "b">>, jdoe>>,
     <<abc, <<"a", Backslash, "t", "b">>, jdoe>>}
Stdins ==
    {<<t[1] \o <<"\n">>, t[2] \o <<"\n">>, t[3] \o <<"\n">> >> :
        t \in (ClientIdTexts \X SecretTexts \X LoginTexts) \cup BoundaryTexts}

\* configuration files found at start-up
FileOf(i, s, l) ==
    <<ConfigLine("client_id", i), ConfigLine("client_secret", s),
      ConfigLine("login", l)>>
ExistingFiles ==
    {FileOf(abc, secret, jdoe), FileOf(<<>>, secret, jdoe),
     <<ConfigLine("client_id", abc)>>}

\* credentials a constructed Session exposes
Sessions ==
    {[client_id |-> "abc", login |-> "jdoe"],
     [client_id |-> "u-s4t2ud", login |-> "asmith"]}
NoSession == [client_id |-> "", login |-> ""]

\* answers of Session::call: a transport failure or a body; a body is
\* well-formed JSON of the expected shape or not
CallFailed == [ok |-> FALSE, wellformed |-> FALSE, json |-> <<>>]
Malformed == [ok |-> TRUE, wellformed |-> FALSE, json |-> <<>>]
Body(j) == [ok |-> TRUE, wellformed |-> TRUE, json |-> j]

\* entries of the history: a step of the program, or a call through the
\* session with its URL and the answer it got
NoUrl == [path |-> "", id |-> 0, client_id |-> "", login |-> ""]
Step(name) == [ev |-> name, url |-> NoUrl, answer |-> CallFailed]
Call(url, resp) == [ev |-> "call", url |-> url, answer |-> resp]
Steps(names) == [i \in 1..Len(names) |-> Step(names[i])]
NoResult == [ok |-> FALSE, val |-> <<>>, err |-> "pending"]

\* the record kept across invocations: the number of this invocation, the
\* invocation in which create_config_toml created the file (0: none), in how
\* many invocations it prompted, and whether the file was removed out of band
FirstInvocation == [invocation |-> 1, createdIn |-> 0, prompted |-> 0, deleted |-> FALSE]

\* the lines that can arrive next on standard input after those read
NextLines(read) ==
    {s[Len(read) + 1] : s \in {t \in Stdins : SubSeq(t, 1, Len(read)) = read}}

----------------------------------------------------------------------------
(* Program::new *)

Init ==
    /\ baseDirs \in BOOLEAN
    /\ fileExists \in (IF baseDirs THEN BOOLEAN ELSE {FALSE})
    /\ fileLines \in (IF fileExists THEN ExistingFiles ELSE {<<>>})
    /\ fileTail = <<>>
    /\ pc = "new"
    /\ log = <<>>
    /\ out = <<>>
    /\ errOut = <<>>
    /\ existed = NoResult
    /\ created = NoResult
    /\ readOutcome = "none"
    /\ validated = NoResult
    /\ typed = <<>>
    /\ past = FirstInvocation
    /\ newResult = NoResult
    /\ session = NoSession
    /\ command = "none"
    /\ tmp = <<>>
    /\ user = <<>>
    /\ runResult = NoResult

\* NewCheckExists going on to creation whatever the check returned
NewCheckExists_creating_anyway ==
    /\ pc = "new"
    /\ log' = Append(log, Step("check_if_config_file_exists"))
    /\ existed' = Ok(check_if_config_file_exists(baseDirs, fileExists))
    /\ pc' = "new_create"
    /\ UNCHANGED <<baseDirs, typed, past, fileExists, fileLines, fileTail, out, errOut,
                   created, readOutcome, validated, newResult, session, command,
                   tmp, user, runResult>>

\* NewCheckExists validating the file it found
NewCheckExists_validating_found ==
    /\ pc = "new"
    /\ log' = Append(log, Step("check_if_config_file_exists"))
    /\ existed' = Ok(check_if_config_file_exists(baseDirs, fileExists))
    /\ pc' = IF ~check_if_config_file_exists(baseDirs, fileExists)
             THEN "new_create" ELSE "new_validate"
    /\ UNCHANGED <<baseDirs, typed, past, fileExists, fileLines, fileTail, out, errOut,
                   created, readOutcome, validated, newResult, session, command,
                   tmp, user, runResult>>

\* Program::new, line 34: the existence check
NewCheckExists ==
    /\ pc = "new"
    /\ log' = Append(log, Step("check_if_config_file_exists"))
    /\ existed' = Ok(check_if_config_file_exists(baseDirs, fileExists))
    /\ pc' = IF ~check_if_config_file_exists(baseDirs, fileExists)
             THEN "new_create" ELSE "new_session"
    /\ UNCHANGED <<baseDirs, typed, past, fileExists, fileLines, fileTail, out, errOut, created,
                   readOutcome, validated, newResult, session, command, tmp,
                   user, runResult>>

\* Program::new, line 36: create_config_toml()? up to the point where it
\* waits for the first line: the instructions, File::create and the first
\* prompt, or its failure before that
NewCreate ==
    /\ pc = "new_create"
    /\ \E fail \in {0, 1} :
        LET c == CreateUpTo(baseDirs, fileExists, fileLines, fileTail,
                            fail, 0, <<>>, 0)
        IN  /\ log' = log \o Steps(<<"create_config_toml">> \o c.steps)
            /\ out' = out \o c.printed
            /\ fileExists' = c.present
            /\ fileLines' = c.lines
            /\ fileTail' = c.tail
            /\ created' = c.res
            /\ typed' = typed \o c.read
            /\ past' = IF c.res = NoResult
                       THEN [past EXCEPT !.prompted = @ + 1,
                                         !.createdIn = IF @ = 0 THEN past.invocation ELSE @]
                       ELSE past
            /\ IF c.res = NoResult
               THEN pc' = "new_prompt" /\ UNCHANGED newResult
               ELSE pc' = "new_failed" /\ newResult' = Err(c.res.err)
    /\ UNCHANGED <<baseDirs, errOut, existed, readOutcome, validated, session,
                   command, tmp, user, runResult>>

\* create_config_toml from the arrival of the line it waits for: read_line,
\* writeln! and then the next prompt, or its return after the third line, or
\* the failure of one of the two
NewCreateLine ==
    /\ pc = "new_prompt"
    /\ \E line \in NextLines(typed) :
        LET k == Len(typed) + 1
            stdin == Append(typed, line)
        IN  \E fail \in {0, 2 * k, 2 * k + 1} : \E cut \in Cuts(fail, stdin) :
                LET was == CreateUpTo(baseDirs, fileExists, fileLines, fileTail,
                                      0, 0, stdin, k - 1)
                    c == CreateUpTo(baseDirs, fileExists, fileLines, fileTail,
                                    fail, cut, stdin, k)
                IN  /\ log' = log \o Steps(SubSeq(c.steps, Len(was.steps) + 1,
                                                  Len(c.steps)))
                    /\ out' = out \o SubSeq(c.printed, Len(was.printed) + 1,
                                            Len(c.printed))
                    /\ fileExists' = c.present
                    /\ fileLines' = c.lines
                    /\ fileTail' = c.tail
                    /\ created' = c.res
                    /\ typed' = c.read
                    /\ IF c.res = NoResult
                       THEN pc' = "new_prompt" /\ UNCHANGED newResult
                       ELSE IF c.res.ok
                       THEN pc' = "new_validate" /\ UNCHANGED newResult
                       ELSE pc' = "new_failed" /\ newResult' = Err(c.res.err)
    /\ UNCHANGED <<baseDirs, errOut, existed, readOutcome, validated, past,
                   session, command, tmp, user, runResult>>

\* Program::new, lines 37-41: check_config_toml() and the use of its result
NewValidate ==
    /\ pc = "new_validate"
    /\ \E outcome \in ReadOutcomes :
        LET v == check_config_toml(baseDirs, outcome, fileLines, fileTail)
        IN  /\ log' = Append(log, Step("check_config_toml"))
            /\ errOut' = errOut \o v.diag
            /\ validated' = v.res
            /\ readOutcome' = outcome
            \* a file that is not found has been removed by the environment
            /\ IF outcome = "NotFound"
               THEN /\ fileExists' = FALSE /\ fileLines' = <<>> /\ fileTail' = <<>>
                    /\ past' = [past EXCEPT !.deleted = TRUE]
               ELSE UNCHANGED <<fileExists, fileLines, fileTail, past>>
            /\ IF v.res.ok /\ ~v.res.val
               THEN pc' = "new_failed" /\ newResult' = Err("ConfigFileNotFound")
               ELSE pc' = "new_session" /\ UNCHANGED newResult
    /\ UNCHANGED <<baseDirs, typed, out, existed, created, session, command,
                   tmp, user, runResult>>

\* Program::new, lines 43-48: Session::new(Some(Mode::Credentials)).await?
NewSession ==
    /\ pc = "new_session"
    /\ log' = Append(log, Step("Session::new"))
    /\ \/ /\ pc' = "new_failed"
          /\ newResult' = Err("SessionNewError")
          /\ UNCHANGED session
       \/ /\ \E s \in Sessions : session' = s
          /\ pc' = "run"
          /\ newResult' = Ok(TRUE)
    /\ UNCHANGED <<baseDirs, typed, past, fileExists, fileLines, fileTail, out, errOut, cfgVars,
                   command, tmp, user, runResult>>

----------------------------------------------------------------------------
(* Remote API and profiles *)

Commands == {"Id", "Me", "Email", "Login", "CorrectionPoint", "Wallet", "Blackhole"}

\* elements of the login-filtered users array
Elements ==
    {[id |-> 7, login |-> "jdoe"], [id |-> 42, login |-> "asmith"]}

RECURSIVE SeqsUpTo(_, _)
SeqsUpTo(S, n) ==
    IF n = 0 THEN {<<>>}
    ELSE LET shorter == SeqsUpTo(S, n - 1)
         IN  shorter \cup {Append(q, e) : q \in {r \in shorter : Len(r) = n - 1}, e \in S}

UsersResponses ==
    {CallFailed, Malformed} \cup {Body(a) : a \in SeqsUpTo(Elements, MaxUsers)}

\* the instant Utc::now() reads, and blackhole instants around it (seconds)
Now == 1704067200
Offsets == {0 - (SecondsPerDay + 1), 0 - 1, SecondsPerDay - 1, 2 * SecondsPerDay + 5}

\* a timestamp text: one that parses as DateTime<Utc> carries its instant
Stamp(t) == [text |-> "rfc3339", valid |-> TRUE, instant |-> t]
Unparsable == [text |-> "soon", valid |-> FALSE, instant |-> 0]
EmptyText == [text |-> "", valid |-> FALSE, instant |-> 0]

\* Option: <<>> is None, <<v>> is Some(v)
None == <<>>
Some(v) == <<v>>
UnwrapOr(o, d) == IF o = None THEN d ELSE o[1]

CursusUser(name, grade, bh) ==
    [cursus |-> [name |-> name], grade |-> grade, blackholed_at |-> bh]

\* enrollments at the index the renderers read, and at the other indices
ReadEntries ==
    {CursusUser("42cursus", g, b) :
        g \in {None, Some("Member")},
        b \in {None, Some(Unparsable)} \cup {Some(Stamp(Now + d)) : d \in Offsets}}
OtherEntry == CursusUser("C Piscine", None, None)

RECURSIVE CursusLists(_)
CursusLists(n) ==
    IF n = 0 THEN {<<>>}
    ELSE LET shorter == CursusLists(n - 1)
         IN  shorter \cup
             {Append(q, e) : q \in {r \in shorter : Len(r) = n - 1},
                             e \in (IF n = CursusIndex + 1 THEN ReadEntries
                                    ELSE {OtherEntry})}

Title(name) == [name |-> name]
TitleLists ==
    {<<>>,
     <<Title(<<"S", "i", "r", " ", "%", "l">>)>>,
     <<Title(<<" ", "l", "e", "a", "d">>), Title(<<"S", "i", "r">>)>>}

\* the profile the API holds for a numeric id
Profile(id, titles, cursus_users) ==
    [displayname |-> IF id = 7 THEN "John Doe" ELSE "Ann Smith",
     login |-> IF id = 7 THEN "jdoe" ELSE "asmith",
     email |-> IF id = 7 THEN "jdoe@student.42.fr" ELSE "asmith@student.42.fr",
     wallet |-> IF id = 7 THEN 500 ELSE 0,
     correction_point |-> IF id = 7 THEN 3 ELSE 11,
     titles |-> titles,
     cursus_users |-> cursus_users]

ProfileResponses(id) ==
    {CallFailed, Malformed} \cup
    {Body(Profile(id, t, c)) : t \in TitleLists, c \in CursusLists(MaxCursus)}

----------------------------------------------------------------------------
(* User resolver *)

Returned(v) == [status |-> "ok", val |-> v, err |-> "none"]
Failed(e) == [status |-> "err", val |-> <<>>, err |-> e]
Panicked == [status |-> "panic", val |-> <<>>, err |-> "index out of bounds"]

UsersUrl(sess) ==
    [path |-> "/v2/users", id |-> 0, client_id |-> sess.client_id,
     login |-> sess.login]
\* UserUrl leaving the numeric id out of the path
UserUrl_without_id(sess, id) ==
    [path |-> "/v2/users/{id}", id |-> 0, client_id |-> sess.client_id,
     login |-> ""]

UserUrl(sess, id) ==
    [path |-> "/v2/users/{id}", id |-> id, client_id |-> sess.client_id,
     login |-> ""]

\* get_user_with_login issuing the call again after a transport failure
get_user_with_login_retrying(sess, urlOk, resp) ==
    IF ~urlOk THEN [res |-> Failed("UrlParseError"), calls |-> <<>>]
    ELSE LET calls == <<Call(UsersUrl(sess), resp)>>
         IN  IF ~resp.ok THEN [res |-> Failed("CallError"), calls |-> calls \o calls]
             ELSE IF ~resp.wellformed THEN [res |-> Failed("JsonError"), calls |-> calls]
             ELSE IF Len(resp.json) < 1 THEN [res |-> Panicked, calls |-> calls]
             ELSE [res |-> Returned(resp.json[1]), calls |-> calls]

\* get_user_with_login answering an empty array with a default element
get_user_with_login_defaulting(sess, urlOk, resp) ==
    IF ~urlOk THEN [res |-> Failed("UrlParseError"), calls |-> <<>>]
    ELSE LET calls == <<Call(UsersUrl(sess), resp)>>
         IN  IF ~resp.ok THEN [res |-> Failed("CallError"), calls |-> calls]
             ELSE IF ~resp.wellformed THEN [res |-> Failed("JsonError"), calls |-> calls]
             ELSE IF Len(resp.json) < 1
                  THEN [res |-> Returned([id |-> 0, login |-> ""]), calls |-> calls]
             ELSE [res |-> Returned(resp.json[1]), calls |-> calls]

\* get_user_with_login: the result and the calls issued through the session
get_user_with_login(sess, urlOk, resp) ==
    IF ~urlOk THEN [res |-> Failed("UrlParseError"), calls |-> <<>>]
    ELSE LET calls == <<Call(UsersUrl(sess), resp)>>
         IN  IF ~resp.ok THEN [res |-> Failed("CallError"), calls |-> calls]
             ELSE IF ~resp.wellformed THEN [res |-> Failed("JsonError"), calls |-> calls]
             ELSE IF Len(resp.json) < 1 THEN [res |-> Panicked, calls |-> calls]
             ELSE [res |-> Returned(resp.json[1]), calls |-> calls]

\* get_user_info_with_id
get_user_info_with_id(sess, id, urlOk, resp) ==
    IF ~urlOk THEN [res |-> Failed("UrlParseError"), calls |-> <<>>]
    ELSE LET calls == <<Call(UserUrl(sess, id), resp)>>
         IN  IF ~resp.ok THEN [res |-> Failed("CallError"), calls |-> calls]
             ELSE IF ~resp.wellformed THEN [res |-> Failed("JsonError"), calls |-> calls]
             ELSE [res |-> Returned(resp.json), calls |-> calls]

----------------------------------------------------------------------------
(* Renderers *)

\* Field without the width of the label column
Field_without_width(label, value) ==
    [kind |-> "field", label |-> label, pad |-> 0, value |-> value]

\* println!("{:20}{}", label, value)
Field(label, value) ==
    [kind |-> "field", label |-> label,
     pad |-> IF Len(label) < LabelWidth THEN LabelWidth - Len(label) ELSE 0,
     value |-> value]

\* FirstToken keeping the whole name
FirstToken_whole_name(s) == s

\* name.split(' ').next().unwrap_or("")
RECURSIVE FirstToken(_)
FirstToken(s) ==
    IF s = <<>> \/ Head(s) = " " THEN <<>>
    ELSE <<Head(s)>> \o FirstToken(Tail(s))

\* println!("{} | {} {}", user.displayname, title, user.login)
Header(u) ==
    [kind |-> "header", displayname |-> u.displayname,
     title |-> IF u.titles = <<>> THEN <<>> ELSE FirstToken(u.titles[1].name),
     login |-> u.login]

\* integer division rounding toward minus infinity
TruncDiv_flooring(a, b) == a \div b

\* integer division of Rust: rounds toward zero
TruncDiv(a, b) == IF a >= 0 THEN a \div b ELSE 0 - ((0 - a) \div b)

\* utc2.signed_duration_since(utc).num_days()
NumDays(utc2, utc) == TruncDiv(utc2 - utc, SecondsPerDay)

HasCursus(u) == Len(u.cursus_users) >= CursusIndex + 1
Cursus(u) == u.cursus_users[CursusIndex + 1]

\* str::parse::<DateTime<Utc>>
ParseDateTime(s) == IF s.valid THEN Ok(s.instant) ELSE Err("ChronoParseError")

\* each renderer: its result and the lines it prints
email(u) == [res |-> Returned(TRUE), printed |-> <<Field("Email", u.email)>>]
wallet(u) == [res |-> Returned(TRUE), printed |-> <<Field("Wallet", u.wallet)>>]
id(t) == [res |-> Returned(TRUE), printed |-> <<Field("ID", t.id)>>]
login(u) == [res |-> Returned(TRUE), printed |-> <<Field("Login", u.login)>>]
correction_point(u) ==
    [res |-> Returned(TRUE),
     printed |-> <<Field("Correction point", u.correction_point)>>]

\* blackhole printing a placeholder when the timestamp does not parse
blackhole_with_placeholder(u, utc) ==
    IF ~HasCursus(u) THEN [res |-> Panicked, printed |-> <<>>]
    ELSE LET utc2 == ParseDateTime(UnwrapOr(Cursus(u).blackholed_at, EmptyText))
         IN  IF ~utc2.ok
             THEN [res |-> Returned(TRUE), printed |-> <<Field("Blackhole", "n/a")>>]
             ELSE [res |-> Returned(TRUE),
                   printed |-> <<Field("Blackhole", NumDays(utc2.val, utc))>>]

\* blackhole taking a missing timestamp for the current instant
blackhole_defaulting_to_now(u, utc) ==
    IF ~HasCursus(u) THEN [res |-> Panicked, printed |-> <<>>]
    ELSE LET utc2 == ParseDateTime(UnwrapOr(Cursus(u).blackholed_at, Stamp(utc)))
         IN  IF ~utc2.ok THEN [res |-> Failed(utc2.err), printed |-> <<>>]
             ELSE [res |-> Returned(TRUE),
                   printed |-> <<Field("Blackhole", NumDays(utc2.val, utc))>>]

blackhole(u, utc) ==
    IF ~HasCursus(u) THEN [res |-> Panicked, printed |-> <<>>]
    ELSE LET utc2 == ParseDateTime(UnwrapOr(Cursus(u).blackholed_at, EmptyText))
         IN  IF ~utc2.ok THEN [res |-> Failed(utc2.err), printed |-> <<>>]
             ELSE [res |-> Returned(TRUE),
                   printed |-> <<Field("Blackhole", NumDays(utc2.val, utc))>>]

----------------------------------------------------------------------------
(* Program::run_program *)

\* how a fallible step of run_program ends it, after printing its lines
Finish(r, next) ==
    /\ out' = out \o r.printed
    /\ CASE r.res.status = "ok" ->
              /\ pc' = next
              /\ runResult' = IF next = "run_ok" THEN Ok(TRUE) ELSE runResult
         [] r.res.status = "err" ->
              /\ pc' = "run_failed"
              /\ runResult' = Err(r.res.err)
         [] OTHER ->
              /\ pc' = "panicked"
              /\ UNCHANGED runResult

\* run_program, line 57: get_user_with_login().await?
RunGetUserWithLogin ==
    /\ pc = "run"
    /\ \E cmd \in Commands, urlOk \in BOOLEAN, resp \in UsersResponses :
        LET r == get_user_with_login(session, urlOk, resp)
        IN  /\ command' = cmd
            /\ log' = log \o <<Step("run_program")>> \o r.calls
            /\ tmp' = r.res.val
            /\ Finish([res |-> r.res, printed |-> <<>>], "run_lookup")
    /\ UNCHANGED <<baseDirs, typed, past, fileExists, fileLines, fileTail, errOut, cfgVars,
                   newResult, session, user>>

\* run_program, line 58: get_user_info_with_id(tmp.id).await?
RunGetUserInfoWithId ==
    /\ pc = "run_lookup"
    /\ \E urlOk \in BOOLEAN, resp \in ProfileResponses(tmp.id) :
        LET r == get_user_info_with_id(session, tmp.id, urlOk, resp)
        IN  /\ log' = log \o r.calls
            /\ user' = r.res.val
            /\ Finish([res |-> r.res, printed |-> <<>>], "dispatch")
    /\ UNCHANGED <<baseDirs, typed, past, fileExists, fileLines, fileTail, errOut, cfgVars,
                   newResult, session, command, tmp>>

\* MeNext with the Wallet and Correction point steps exchanged
MeNext_exchanged(step) ==
    CASE step = "dispatch" -> "me_correction_point"
      [] step = "me_correction_point" -> "me_wallet"
      [] step = "me_wallet" -> "me_cursus"
      [] step = "me_cursus" -> "me_grade"
      [] step = "me_grade" -> "me_blackhole"
      [] OTHER -> "run_ok"

\* me, lines 103-116: the step that follows each step of the renderer
MeNext(step) ==
    CASE step = "dispatch" -> "me_wallet"
      [] step = "me_wallet" -> "me_correction_point"
      [] step = "me_correction_point" -> "me_cursus"
      [] step = "me_cursus" -> "me_grade"
      [] step = "me_grade" -> "me_blackhole"
      [] OTHER -> "run_ok"

\* run_program, lines 59-68: the renderer of every command but Me
RunDispatch ==
    /\ pc = "dispatch"
    /\ command # "Me"
    /\ log' = Append(log, Step(command))
    /\ \E utc \in {Now} :
        Finish(CASE command = "Id" -> id(tmp)
                 [] command = "Email" -> email(user)
                 [] command = "Login" -> login(user)
                 [] command = "CorrectionPoint" -> correction_point(user)
                 [] command = "Wallet" -> wallet(user)
                 [] command = "Blackhole" -> blackhole(user, utc),
               "run_ok")
    /\ UNCHANGED <<baseDirs, typed, past, fileExists, fileLines, fileTail, errOut, cfgVars,
                   newResult, session, command, tmp, user>>

\* me, lines 98-103: the header line
MeHeader ==
    /\ pc = "dispatch"
    /\ command = "Me"
    /\ log' = Append(log, Step(command))
    /\ Finish([res |-> Returned(TRUE), printed |-> <<Header(user)>>], MeNext(pc))
    /\ UNCHANGED <<baseDirs, typed, past, fileExists, fileLines, fileTail, errOut, cfgVars,
                   newResult, session, command, tmp, user>>

\* me, line 104: self.wallet(user).await?
MeWallet ==
    /\ pc = "me_wallet"
    /\ Finish(wallet(user), MeNext(pc))
    /\ UNCHANGED <<baseDirs, typed, past, fileExists, fileLines, fileTail, log, errOut, cfgVars,
                   newResult, session, command, tmp, user>>

\* me, line 105: self.correction_point(user).await?
MeCorrectionPoint ==
    /\ pc = "me_correction_point"
    /\ Finish(correction_point(user), MeNext(pc))
    /\ UNCHANGED <<baseDirs, typed, past, fileExists, fileLines, fileTail, log, errOut, cfgVars,
                   newResult, session, command, tmp, user>>

\* me, line 106: the Cursus line
MeCursus ==
    /\ pc = "me_cursus"
    /\ Finish(IF ~HasCursus(user) THEN [res |-> Panicked, printed |-> <<>>]
              ELSE [res |-> Returned(TRUE),
                    printed |-> <<Field("Cursus", Cursus(user).cursus.name)>>],
              MeNext(pc))
    /\ UNCHANGED <<baseDirs, typed, past, fileExists, fileLines, fileTail, log, errOut, cfgVars,
                   newResult, session, command, tmp, user>>

\* me, lines 107-114: the Grade line
MeGrade ==
    /\ pc = "me_grade"
    /\ Finish(IF ~HasCursus(user) THEN [res |-> Panicked, printed |-> <<>>]
              ELSE [res |-> Returned(TRUE),
                    printed |-> <<Field("Grade", UnwrapOr(Cursus(user).grade, ""))>>],
              MeNext(pc))
    /\ UNCHANGED <<baseDirs, typed, past, fileExists, fileLines, fileTail, log, errOut, cfgVars,
                   newResult, session, command, tmp, user>>

\* me, lines 115-116: self.blackhole(user).await?
MeBlackhole ==
    /\ pc = "me_blackhole"
    /\ \E utc \in {Now} : Finish(blackhole(user, utc), MeNext(pc))
    /\ UNCHANGED <<baseDirs, typed, past, fileExists, fileLines, fileTail, log, errOut, cfgVars,
                   newResult, session, command, tmp, user>>

Next ==
    \/ NewCheckExists
    \/ NewCreate
    \/ NewCreateLine
    \/ NewValidate
    \/ NewSession
    \/ RunGetUserWithLogin
    \/ RunGetUserInfoWithId
    \/ RunDispatch
    \/ MeHeader
    \/ MeWallet
    \/ MeCorrectionPoint
    \/ MeCursus
    \/ MeGrade
    \/ MeBlackhole

Spec == Init /\ [][Next]_vars

\* Program::new has returned (an error, or the Program that run_program is
\* about to be called on), or the process is ended from outside while it
\* waits at a prompt, and the program is started again: a new process, the
\* same per-user directory and configuration file
Restart ==
    /\ pc \in {"new_failed", "run", "new_prompt"}
    /\ past.invocation < MaxInvocations
    /\ past' = [past EXCEPT !.invocation = @ + 1]
    /\ pc' = "new"
    /\ log' = <<>>
    /\ out' = <<>>
    /\ errOut' = <<>>
    /\ existed' = NoResult
    /\ created' = NoResult
    /\ readOutcome' = "none"
    /\ validated' = NoResult
    /\ typed' = <<>>
    /\ newResult' = NoResult
    /\ session' = NoSession
    /\ command' = "none"
    /\ tmp' = <<>>
    /\ user' = <<>>
    /\ runResult' = NoResult
    /\ UNCHANGED <<baseDirs, fileExists, fileLines, fileTail>>

NextRestart ==
    \/ NewCheckExists
    \/ NewCreate
    \/ NewCreateLine
    \/ NewValidate
    \/ NewSession
    \/ Restart

\* Program::new invoked up to MaxInvocations times, one process after the other
SpecRestart == Init /\ [][NextRestart]_vars

----------------------------------------------------------------------------
(* Observations on a state *)

\* how many times a step appears in the history
Count(name) == Cardinality({i \in 1..Len(log) : log[i].ev = name})
\* positions of a step in the history
Positions(name) == {i \in 1..Len(log) : log[i].ev = name}
\* the calls issued through the session so far, in order
IsCall(e) == e.ev = "call"
Calls == SelectSeq(log, IsCall)
\* the lines the renderers have printed so far, in order
IsRendered(l) == l.kind # "text"
Rendered == SelectSeq(out, IsRendered)
\* run_program has ended
Ended == pc \in {"run_ok", "run_failed", "panicked"}
\* the second lookup has returned a profile
Resolved == pc \in {"dispatch", "me_wallet", "me_correction_point", "me_cursus",
                    "me_grade", "me_blackhole"} \/ (Ended /\ Count(command) = 1)

----------------------------------------------------------------------------
(* Type correctness *)

TypeOK ==
    /\ baseDirs \in BOOLEAN
    /\ fileExists \in BOOLEAN
    /\ pc \in {"new", "new_create", "new_prompt", "new_validate", "new_session",
               "new_failed",
               "run", "run_lookup", "dispatch", "me_wallet",
               "me_correction_point", "me_cursus", "me_grade", "me_blackhole",
               "run_ok", "run_failed", "panicked"}
    /\ command \in Commands \cup {"none"}

----------------------------------------------------------------------------
(* Program::new and the configuration store *)

IsErr(r) == ~r.ok /\ r.err # "pending"

\* the steps of Program::new that come before the Session is constructed
ConfigSteps ==
    {"check_if_config_file_exists", "create_config_toml", "File::create",
     "read_line", "write", "check_config_toml"}

\* the configuration file was missing when Program::new started: creation is
\* the only step that makes the file appear, and before it runs the file is
\* as it was found
MissingAtStart == Count("create_config_toml") > 0 \/ ~fileExists

\* Session::new comes after the existence check and after every other
\* configuration step
SessionComesLast ==
    \A i \in Positions("Session::new") :
        /\ \E j \in Positions("check_if_config_file_exists") : j < i
        /\ \A j \in 1..Len(log) : log[j].ev \in ConfigSteps => j < i

\* C1: when the configuration file is missing, Program::new runs interactive
\* creation exactly once; after a successful creation it runs validation
\* exactly once; when validation reports false it returns ConfigFileNotFound
\* and constructs no Session; and the Session is constructed only after the
\* existence check, creation and validation have finished.
C1_CreationOnceThenValidation ==
    /\ (MissingAtStart /\ pc \notin {"new", "new_create"})
          => Count("create_config_toml") = 1
    /\ (created.ok /\ pc # "new_validate") => Count("check_config_toml") = 1
    /\ validated = Ok(FALSE)
          => /\ newResult = Err("ConfigFileNotFound")
             /\ Count("Session::new") = 0
    /\ SessionComesLast

\* C1 where the per-user directory resolves: there creation, validation and
\* the ConfigFileNotFound exit are as C1 states them.
C1_HoldsWhenDirectoryResolves ==
    baseDirs => C1_CreationOnceThenValidation

\* C2: whichever step of Program::new returns an error (creation, validation,
\* session construction), Program::new returns that error and no later step
\* runs; an Err from validation stops construction before the Session.
C2_FirstFailurePropagates ==
    /\ IsErr(created)
          => /\ pc = "new_failed" /\ newResult = Err(created.err)
             /\ Count("check_config_toml") = 0 /\ Count("Session::new") = 0
    /\ IsErr(validated)
          => /\ pc = "new_failed" /\ newResult = Err(validated.err)
             /\ Count("Session::new") = 0
    /\ (pc = "new_failed" /\ Count("Session::new") = 1)
          => newResult = Err("SessionNewError")

\* C2 without its validation part: errors of creation and of session
\* construction are returned and stop Program::new.
C2_CreationAndSessionErrorsPropagate ==
    /\ IsErr(created)
          => /\ pc = "new_failed" /\ newResult = Err(created.err)
             /\ Count("check_config_toml") = 0 /\ Count("Session::new") = 0
    /\ (pc = "new_failed" /\ Count("Session::new") = 1)
          => newResult = Err("SessionNewError")

\* C3: the existence check returns true if and only if the configuration file
\* is present in the per-user config directory, and false when that directory
\* cannot be resolved.
C3_ExistsIffFilePresent ==
    (existed # NoResult /\ Count("create_config_toml") = 0)
        => existed = Ok(baseDirs /\ fileExists)

----------------------------------------------------------------------------
(* Validation *)

\* the configuration check_config_toml read, when it read a well-formed one
ReadWellFormed == readOutcome = "read" /\ FromToml(fileLines, fileTail).ok
ConfigRead == FromToml(fileLines, fileTail).val
\* a value check_client accepts: not empty, at most LenLimit bytes
InRange(v) == v # <<>> /\ ByteLen(v) <= LenLimit

\* C4 as stated: on a readable well-formed configuration validation returns
\* true when client_id and client_secret are in range, and false when any of
\* client_id, client_secret, login is empty or longer than 256.
C4_AnyFieldOutOfRangeIsInvalid ==
    ReadWellFormed =>
        /\ (InRange(ConfigRead.client_id) /\ InRange(ConfigRead.client_secret))
              => validated = Ok(TRUE)
        /\ (\/ ~InRange(ConfigRead.client_id)
            \/ ~InRange(ConfigRead.client_secret)
            \/ ~InRange(ConfigRead.login))
              => validated = Ok(FALSE)

\* C4 amended: on a readable well-formed configuration validation returns true
\* exactly when client_id and client_secret are both non-empty and at most
\* 256 bytes long, as str::len counts; login is not examined.
C4_ValidIffClientFieldsInRange ==
    ReadWellFormed =>
        validated = Ok(InRange(ConfigRead.client_id) /\ InRange(ConfigRead.client_secret))

\* a configuration with an empty or over-long login and a client_id of
\* exactly 256 was validated and accepted
C4_Witness ==
    /\ ReadWellFormed
    /\ ~InRange(ConfigRead.login)
    /\ ByteLen(ConfigRead.client_id) = LenLimit
    /\ validated = Ok(TRUE)

\* a configuration with an over-long client_secret was validated and rejected
C4_WitnessRejected ==
    /\ ReadWellFormed
    /\ ByteLen(ConfigRead.client_secret) > LenLimit
    /\ validated = Ok(FALSE)

\* C5: a read failure never makes validation return an error: a missing file
\* or a permission-denied read gives Ok(false), any other read failure gives
\* Ok(true), after which Program::new goes on to construct the Session.
C5_ReadFailuresAreNotErrors ==
    /\ readOutcome \in {"NotFound", "PermissionDenied"} => validated = Ok(FALSE)
    /\ readOutcome = "Other"
          => /\ validated = Ok(TRUE)
             /\ pc = "new_session" \/ Count("Session::new") = 1
    /\ readOutcome \in {"NotFound", "PermissionDenied", "Other"} => validated.ok

\* the read failed in an unnamed way and the Session was constructed
C5_Witness ==
    /\ readOutcome = "Other"
    /\ Count("Session::new") = 1
    /\ newResult = Ok(TRUE)

----------------------------------------------------------------------------
(* User resolution in run_program *)

Completed(answer) == answer.ok /\ answer.wellformed
ErrorOf(answer) == IF ~answer.ok THEN "CallError" ELSE "JsonError"
CallsTo(path) == {i \in 1..Len(Calls) : Calls[i].url.path = path}

\* C6: a successful run_program, whatever the command, has issued exactly two
\* calls through the session: first the login-filtered users lookup, then the
\* single-user lookup by the id the first returned; the renderer runs after
\* both, and nothing is rendered before both have completed.
C6_TwoLookupsThenRenderer ==
    /\ pc = "run_ok"
          => /\ Len(Calls) = 2
             /\ Calls[1].url = [path |-> "/v2/users", id |-> 0,
                                client_id |-> session.client_id,
                                login |-> session.login]
             /\ Calls[2].url = [path |-> "/v2/users/{id}",
                                id |-> Calls[1].answer.json[1].id,
                                client_id |-> session.client_id, login |-> ""]
             /\ Count(command) = 1
    /\ \A i \in Positions(command) : Cardinality({j \in 1..i : log[j].ev = "call"}) = 2
    /\ Rendered # <<>>
          => /\ Len(Calls) = 2
             /\ Completed(Calls[1].answer) /\ Completed(Calls[2].answer)

\* command Id has succeeded for the user with id 42, after both lookups
C6_Witness ==
    /\ pc = "run_ok"
    /\ command = "Id"
    /\ Len(Calls) = 2
    /\ Calls[2].url.id = 42
    /\ Len(Rendered) = 1

\* C7: a failed lookup is returned to the caller and not retried: each lookup
\* is issued at most once; after a failed first lookup the second is never
\* issued; after either failure no renderer runs, nothing is rendered and
\* run_program returns the error of the lookup.
C7_LookupFailuresPropagate ==
    /\ Cardinality(CallsTo("/v2/users")) <= 1
    /\ Cardinality(CallsTo("/v2/users/{id}")) <= 1
    /\ \A i \in 1..Len(Calls) :
          ~Completed(Calls[i].answer)
              => /\ Len(Calls) = i
                 /\ pc = "run_failed"
                 /\ runResult = Err(ErrorOf(Calls[i].answer))
                 /\ Rendered = <<>>
                 /\ Count(command) = 0
    /\ runResult = Err("UrlParseError")
          => /\ pc = "run_failed"
             /\ Rendered = <<>>
             /\ Count(command) = 0
             /\ CallsTo("/v2/users") = {} => Len(Calls) = 0

\* the first lookup failed in transport and run_program returned that error
C7_Witness ==
    /\ pc = "run_failed"
    /\ Len(Calls) = 1
    /\ ~Calls[1].answer.ok
    /\ runResult = Err("CallError")

\* the second lookup answered with a malformed body
C7_WitnessSecond ==
    /\ pc = "run_failed"
    /\ Len(Calls) = 2
    /\ ~Calls[2].answer.wellformed
    /\ runResult = Err("JsonError")

\* C8: the login-filtered lookup returns the single element of a one-element
\* array unchanged; on an empty array the resolution fails: no user summary
\* is returned and the second lookup is not issued.
C8_FirstElementOrFailure ==
    (Len(Calls) >= 1 /\ Completed(Calls[1].answer)) =>
        /\ Len(Calls[1].answer.json) = 1
              => /\ tmp = Calls[1].answer.json[1]
                 /\ pc # "panicked" \/ Len(Calls) = 2
        /\ Len(Calls[1].answer.json) = 0
              => /\ tmp = <<>>
                 /\ Len(Calls) = 1
                 /\ pc = "panicked"
                 /\ ~runResult.ok
                 /\ Rendered = <<>>

\* a one-element array was answered and its element drives the second lookup
C8_Witness ==
    /\ Len(Calls) = 2
    /\ Completed(Calls[1].answer)
    /\ Len(Calls[1].answer.json) = 1
    /\ tmp = [id |-> 42, login |-> "asmith"]

\* an empty array was answered
C8_WitnessEmpty ==
    /\ Len(Calls) = 1
    /\ Completed(Calls[1].answer)
    /\ Calls[1].answer.json = <<>>
    /\ pc = "panicked"

----------------------------------------------------------------------------
(* The Me renderer *)

MeHeaderLine ==
    [kind |-> "header", displayname |-> user.displayname,
     title |-> IF Len(user.titles) = 0 THEN <<>> ELSE FirstToken(user.titles[1].name),
     login |-> user.login]
LineOf(label, value) ==
    [kind |-> "field", label |-> label, pad |-> LabelWidth - Len(label),
     value |-> value]
MeFirstThree ==
    <<MeHeaderLine, LineOf("Wallet", user.wallet),
      LineOf("Correction point", user.correction_point)>>
MeFirstFive ==
    MeFirstThree \o
    <<LineOf("Cursus", user.cursus_users[2].cursus.name),
      LineOf("Grade", IF user.cursus_users[2].grade = <<>> THEN ""
                      ELSE user.cursus_users[2].grade[1])>>
BlackholeParses ==
    /\ user.cursus_users[2].blackholed_at # <<>>
    /\ user.cursus_users[2].blackholed_at[1].valid

\* C9: a Me run in which every step succeeds prints, in this order and
\* nothing else: the header, Wallet, Correction point, the Cursus and Grade of
\* cursus index 1 (an absent grade as the empty string), Blackhole.
C9_MeOrder ==
    (command = "Me" /\ pc = "run_ok") =>
        /\ Len(Rendered) = 6
        /\ SubSeq(Rendered, 1, 5) = MeFirstFive
        /\ Rendered[6].label = "Blackhole"
        /\ Rendered[6].pad = LabelWidth - Len("Blackhole")

\* Me has succeeded on a profile whose cursus index 1 has no grade
C9_Witness ==
    /\ command = "Me"
    /\ pc = "run_ok"
    /\ user.cursus_users[2].grade = <<>>
    /\ Len(Rendered) = 6

\* C10: output already printed stays: Me on a profile whose cursus index 1 has
\* no or an unparsable blackholed_at prints the header, Wallet, Correction
\* point, Cursus and Grade lines, no Blackhole line, and run_program returns
\* the timestamp parse error; on a profile with fewer than two enrollments the
\* header, Wallet and Correction point lines are printed before the failure.
C10_PartialOutputKept ==
    (command = "Me" /\ Resolved /\ Ended) =>
        /\ (Len(user.cursus_users) >= 2 /\ ~BlackholeParses)
              => /\ Rendered = MeFirstFive
                 /\ pc = "run_failed"
                 /\ runResult = Err("ChronoParseError")
        /\ Len(user.cursus_users) < 2
              => /\ Rendered = MeFirstThree
                 /\ pc = "panicked"
                 /\ ~runResult.ok

\* Me has failed at the Blackhole step on a missing blackholed_at, after five lines
C10_Witness ==
    /\ command = "Me"
    /\ pc = "run_failed"
    /\ Resolved
    /\ Len(user.cursus_users) >= 2
    /\ user.cursus_users[2].blackholed_at = <<>>
    /\ Len(Rendered) = 5

\* Me has failed on a profile with a single enrollment, after three lines
C10_WitnessShort ==
    /\ command = "Me"
    /\ pc = "panicked"
    /\ Resolved
    /\ Len(user.cursus_users) = 1
    /\ Len(Rendered) = 3


----------------------------------------------------------------------------
(* The Blackhole renderer *)

\* the lines labelled Blackhole among the rendered ones
IsBlackholeLine(l) == l.kind = "field" /\ l.label = "Blackhole"
BlackholeLines == SelectSeq(Rendered, IsBlackholeLine)
BlackholeMissing ==
    /\ Len(user.cursus_users) >= 2
    /\ user.cursus_users[2].blackholed_at = <<>>

\* C11: when blackholed_at of cursus index 1 is missing, the Blackhole
\* renderer fails with the timestamp parse error and prints no Blackhole line
\* (no placeholder value either), and run_program returns that error.
C11_MissingBlackholeIsParseError ==
    (Resolved /\ BlackholeMissing) =>
        /\ BlackholeLines = <<>>
        /\ (command = "Blackhole" /\ Ended)
              => /\ pc = "run_failed"
                 /\ runResult = Err("ChronoParseError")
                 /\ Rendered = <<>>

\* command Blackhole has ended on a profile without blackholed_at
C11_Witness ==
    /\ command = "Blackhole"
    /\ Resolved
    /\ Ended
    /\ BlackholeMissing
    /\ runResult = Err("ChronoParseError")

\* the seconds from the instant read by the renderer to the blackhole instant
SecondsLeft == user.cursus_users[2].blackholed_at[1].instant - Now
BlackholePrinted ==
    /\ command = "Blackhole"
    /\ Resolved
    /\ pc = "run_ok"

\* C12 as stated: the printed day count is zero or positive for a blackhole
\* in the future, negative for every blackhole already past (also one past by
\* less than a day), and the exact whole-day difference for a future one.
C12_NegativeWheneverPast ==
    BlackholePrinted =>
        /\ Len(Rendered) = 1
        /\ SecondsLeft >= 0
              => /\ Rendered[1].value >= 0
                 /\ Rendered[1].value * SecondsPerDay <= SecondsLeft
                 /\ SecondsLeft < (Rendered[1].value + 1) * SecondsPerDay
        /\ SecondsLeft < 0 => Rendered[1].value < 0

\* C12 amended: the printed day count is the whole days of the difference,
\* rounded toward zero: for a future blackhole the exact whole-day
\* difference, for a past one minus the whole days elapsed, hence 0 (not a
\* negative number) when it is past by less than one full day.
C12_WholeDaysTowardZero ==
    BlackholePrinted =>
        /\ Len(Rendered) = 1
        /\ Rendered[1].label = "Blackhole"
        /\ SecondsLeft >= 0
              => /\ Rendered[1].value >= 0
                 /\ Rendered[1].value * SecondsPerDay <= SecondsLeft
                 /\ SecondsLeft < (Rendered[1].value + 1) * SecondsPerDay
        /\ SecondsLeft < 0
              => /\ Rendered[1].value <= 0
                 /\ (Rendered[1].value - 1) * SecondsPerDay < SecondsLeft
                 /\ SecondsLeft <= Rendered[1].value * SecondsPerDay

\* a blackhole one second in the past was printed as 0 days
C12_Witness ==
    /\ BlackholePrinted
    /\ SecondsLeft = 0 - 1
    /\ Rendered[1].value = 0

\* a blackhole more than one day in the past was printed as -1
C12_WitnessPast ==
    /\ BlackholePrinted
    /\ SecondsLeft < 0 - SecondsPerDay
    /\ Rendered[1].value = 0 - 1


----------------------------------------------------------------------------
(* The title segment of Me *)

\* t is what comes before the first space of name (all of name without one)
IsFirstTokenOf(t, name) ==
    /\ Len(t) <= Len(name)
    /\ t = SubSeq(name, 1, Len(t))
    /\ \A i \in 1..Len(t) : t[i] # " "
    /\ Len(t) < Len(name) => name[Len(t) + 1] = " "

MeStarted == command = "Me" /\ Resolved /\ pc # "dispatch"

\* C13: on a profile with an empty titles list the Me renderer does not fail
\* at the title step: the title segment of the header is empty and the
\* renderer goes on to the Wallet step; with titles, the segment is the first
\* space-delimited token of the first title's name.
C13_TitleSegment ==
    MeStarted =>
        /\ Len(Rendered) >= 1
        /\ Rendered[1].kind = "header"
        /\ Len(user.titles) = 0
              => /\ Rendered[1].title = <<>>
                 /\ pc = "me_wallet" \/ (Len(Rendered) >= 2 /\ Rendered[2].label = "Wallet")
        /\ Len(user.titles) > 0
              => IsFirstTokenOf(Rendered[1].title, user.titles[1].name)

\* Me on a profile without titles has printed the header and the Wallet line
C13_Witness ==
    /\ MeStarted
    /\ user.titles = <<>>
    /\ Len(Rendered) >= 2
    /\ Rendered[1].title = <<>>
    /\ Rendered[2].label = "Wallet"

\* Me on a profile whose first title has several words printed the first one
C13_WitnessToken ==
    /\ MeStarted
    /\ Len(user.titles) > 0
    /\ Rendered[1].title = <<"S", "i", "r">>
    /\ Len(user.titles[1].name) > 3


----------------------------------------------------------------------------
(* Round trip of the configuration *)

\* t is line without its leading and trailing whitespace
IsTrimOf(t, line) ==
    \E i \in 0..Len(line) :
        /\ \A j \in 1..i : line[j] \in Whitespace
        /\ i + Len(t) <= Len(line)
        /\ t = SubSeq(line, i + 1, i + Len(t))
        /\ \A j \in (i + Len(t) + 1)..Len(line) : line[j] \in Whitespace
        /\ t # <<>> => (t[1] \notin Whitespace /\ t[Len(t)] \notin Whitespace)

\* the text stored between the quotes of the k-th line of the file
Stored(k) == SubSeq(fileLines[k].raw, 2, Len(fileLines[k].raw) - 1)
\* a text that reads back as itself: no quote, no backslash, no control
\* character
IsPlain(t) == \A i \in 1..Len(t) : ~Special(t[i])

\* create_config_toml has just returned Ok
JustCreated == pc = "new_validate" /\ created.ok

\* C14: interactive creation writes client_id, client_secret and login in that
\* order, each holding the trimmed line typed at its prompt and nothing of
\* another line; read back, the file yields these values (the lines abc,
\* secret, jdoe yield client_id=abc, client_secret=secret, login=jdoe).
C14_RoundTrip ==
    JustCreated =>
        /\ Len(typed) = 3
        /\ Len(fileLines) = 3
        /\ \A k \in 1..3 :
              /\ fileLines[k].key = <<"client_id", "client_secret", "login">>[k]
              /\ Len(fileLines[k].raw) >= 2
              /\ fileLines[k].raw[1] = Quote
              /\ fileLines[k].raw[Len(fileLines[k].raw)] = Quote
              /\ IsTrimOf(Stored(k), typed[k])
        /\ (\A k \in 1..3 : IsPlain(Stored(k)))
              => FromToml(fileLines, fileTail) =
                    Ok([client_id |-> Stored(1), client_secret |-> Stored(2),
                        login |-> Stored(3)])
        /\ typed = <<<<"\f", " ", "a", "b", "c", "\n">>,
                     <<"s", "e", "c", "r", "e", "t", "\n">>,
                     <<"j", "d", "o", "e", "U+00A0", "\t", "\n">> >>
              => FromToml(fileLines, fileTail) =
                    Ok([client_id |-> <<"a", "b", "c">>,
                        client_secret |-> <<"s", "e", "c", "r", "e", "t">>,
                        login |-> <<"j", "d", "o", "e">>])

\* the lines abc, secret, jdoe were typed, with blanks around, and stored
C14_Witness ==
    /\ JustCreated
    /\ typed = <<<<"\f", " ", "a", "b", "c", "\n">>,
                 <<"s", "e", "c", "r", "e", "t", "\n">>,
                 <<"j", "d", "o", "e", "U+00A0", "\t", "\n">> >>
    /\ Stored(1) = abc /\ Stored(2) = secret /\ Stored(3) = jdoe


----------------------------------------------------------------------------
(* The configuration file once it exists *)

\* the steps of create_config_toml
CreationSteps == {"create_config_toml", "File::create", "read_line", "write"}
IsPrompt(l) == l.kind = "text"
\* Program::new is at or past the construction of the Session
PastConfiguration == pc \notin {"new", "new_create", "new_prompt", "new_validate"}

\* in the states: after a check that reported true nothing of creation has
\* run, and every step of creation precedes Session::new and the API calls
C15_NoCreationWhenFound ==
    /\ existed = Ok(TRUE)
          => /\ \A i \in 1..Len(log) : log[i].ev \notin CreationSteps
             /\ typed = <<>>
             /\ SelectSeq(out, IsPrompt) = <<>>
    /\ \A i, j \in 1..Len(log) :
          (log[i].ev \in {"Session::new", "call"} /\ log[j].ev \in CreationSteps)
              => j < i

\* in the steps: once the check has reported true, or once Program::new is
\* past its configuration steps, no step changes the file, reads standard
\* input or prints a prompt
C15_FileLeftAlone ==
    (existed = Ok(TRUE) \/ PastConfiguration)
        => /\ UNCHANGED <<fileExists, fileLines, fileTail, typed>>
           /\ SelectSeq(out', IsPrompt) = SelectSeq(out, IsPrompt)

\* C15: when the existence check reports true, creation is not run, the
\* configuration file is not written and standard input is not read; and no
\* prompting or configuration write happens once session construction has
\* started, nor during the API calls of run_program.
C15_ExistingFileNeverMutated ==
    [](C15_NoCreationWhenFound) /\ [][C15_FileLeftAlone]_vars

\* run_program has ended on a configuration file that was found at start-up
C15_Witness ==
    /\ existed = Ok(TRUE)
    /\ fileExists
    /\ pc = "run_ok"
    /\ Len(Calls) = 2
    /\ typed = <<>>

\* the file already exists but violates the client_id / client_secret rule
InvalidFileFound ==
    /\ existed = Ok(TRUE)
    /\ fileExists
    /\ FromToml(fileLines, fileTail).ok
    /\ ~(InRange(FromToml(fileLines, fileTail).val.client_id)
         /\ InRange(FromToml(fileLines, fileTail).val.client_secret))

\* C17: when the configuration file already exists check_config_toml is not
\* called: an existing configuration that breaks the client_id /
\* client_secret rule never gives ConfigFileNotFound, and Program::new goes
\* from the existence check straight to Session::new.
C17_ExistingFileNotValidated ==
    existed = Ok(TRUE) =>
        /\ Count("check_config_toml") = 0
        /\ validated = NoResult
        /\ newResult # Err("ConfigFileNotFound")
        /\ pc = "new_session" \/ (Len(log) >= 2 /\ log[2].ev = "Session::new")

\* Program::new has succeeded on an existing file with an empty client_id
C17_Witness ==
    /\ InvalidFileFound
    /\ newResult = Ok(TRUE)
    /\ Count("Session::new") = 1


----------------------------------------------------------------------------
(* The one-line renderers *)

OneLineCommands == {"Id", "Login", "Email", "Wallet", "CorrectionPoint"}

\* what the two lookups were answered with
SummaryAnswered == Calls[1].answer.json[1]
ProfileAnswered == Calls[2].answer.json

LabelOf(c) ==
    CASE c = "Id" -> "ID"
      [] c = "Login" -> "Login"
      [] c = "Email" -> "Email"
      [] c = "Wallet" -> "Wallet"
      [] OTHER -> "Correction point"

PrintedValueOf(c) ==
    CASE c = "Id" -> SummaryAnswered.id
      [] c = "Login" -> ProfileAnswered.login
      [] c = "Email" -> ProfileAnswered.email
      [] c = "Wallet" -> ProfileAnswered.wallet
      [] OTHER -> ProfileAnswered.correction_point

\* C16: once the user is resolved, each of Id, Login, Email, Wallet and
\* CorrectionPoint succeeds and prints exactly one line: its label padded to
\* a column of 20 characters, then the value; Id prints the id of the summary
\* the first lookup returned, the others a field of the profile the second
\* lookup returned.
C16_OneLinePaddedTo20 ==
    (command \in OneLineCommands /\ Resolved /\ pc # "dispatch") =>
        /\ pc = "run_ok"
        /\ runResult = Ok(TRUE)
        /\ Len(Rendered) = 1
        /\ Rendered[1].kind = "field"
        /\ Rendered[1].label = LabelOf(command)
        /\ Len(Rendered[1].label) + Rendered[1].pad = 20
        /\ Rendered[1].value = PrintedValueOf(command)

\* command Wallet has printed Wallet, 14 blanks and 500
C16_Witness ==
    /\ command = "Wallet"
    /\ pc = "run_ok"
    /\ Rendered = <<[kind |-> "field", label |-> "Wallet", pad |-> 14, value |-> 500]>>

\* command Id has printed the id of the summary
C16_WitnessId ==
    /\ command = "Id"
    /\ pc = "run_ok"
    /\ Rendered = <<[kind |-> "field", label |-> "ID", pad |-> 18, value |-> 42]>>


----------------------------------------------------------------------------
(* Successive invocations *)

\* this invocation comes after the one in which create_config_toml created
\* the file, and the file has not been removed out of band
AfterCreation ==
    /\ past.createdIn > 0
    /\ past.invocation > past.createdIn
    /\ ~past.deleted

\* in the states: without out-of-band deletion creation has prompted in at
\* most one invocation, and an invocation after it finds the file and runs
\* neither creation nor validation
C18_CreationSkippedLater ==
    /\ ~past.deleted => past.prompted <= 1
    /\ AfterCreation
          => /\ fileExists
             /\ existed \in {NoResult, Ok(TRUE)}
             /\ \A i \in 1..Len(log) :
                   log[i].ev \notin CreationSteps \cup {"check_config_toml"}
             /\ newResult # Err("ConfigFileNotFound")

\* in the steps: an invocation after the creating one leaves the file as the
\* creating one left it
C18_FileNotRepaired ==
    AfterCreation => UNCHANGED <<fileExists, fileLines, fileTail>>

\* C18: over successive invocations of Program::new, with no out-of-band
\* deletion, interactive creation runs in at most one of them: once
\* create_config_toml has created the file (even if it then failed part-way,
\* or validation reported false), every later invocation sees the file as
\* existing and skips creation and validation, so the invalid or partial
\* file is never repaired.
C18_CreationAtMostOnce ==
    [](C18_CreationSkippedLater) /\ [][C18_FileNotRepaired]_vars

\* a second invocation has constructed its Session on the partial file that
\* the first one left when it failed part-way
C18_Witness ==
    /\ past.invocation = 2
    /\ past.createdIn = 1
    /\ ~past.deleted
    /\ fileExists
    /\ Len(fileLines) < 3
    /\ fileTail # <<>>
    /\ newResult = Ok(TRUE)

\* a second invocation has constructed its Session on a file for which the
\* first one's validation had reported false
C18_WitnessInvalid ==
    /\ past.invocation = 2
    /\ past.createdIn = 1
    /\ ~past.deleted
    /\ Len(fileLines) = 3
    /\ FromToml(fileLines, fileTail).ok
    /\ ~InRange(FromToml(fileLines, fileTail).val.client_id)
    /\ newResult = Ok(TRUE)

====
